---------------------------- MODULE Spec2Model ----------------------------
(***************************************************************************)
(* A model of youtube_to_cue.py: the timestamp parser, the line extractor, *)
(* the file-reading driver, the CUE renderer and the interactive main().   *)
(* Text is modelled by TLA+ strings; a character is a string of length 1.  *)
(***************************************************************************)
EXTENDS Integers, Sequences, FiniteSets, TLC

VARIABLES
    pc,           \* control position of main() (or of a function harness)
    input,        \* argument of the function under a harness
    result,       \* value returned / raised by the function under a harness
    lines,        \* f.readlines() of the file being read
    line_num,     \* enumerate(lines, 1) position of the reading loop
    parsed,       \* the local `parsed` of the last loop iteration
    tracks,       \* the local list `tracks` of read_timestamps_file
    self_tracks,  \* generator.tracks
    warnings,     \* lines printed by the current read_timestamps_file call
    exc,          \* the exception main() caught from read_timestamps_file
    received,     \* every exception main() has caught so far
    meta,         \* artist, album, audio_file, year, genre of the generator
    accepted,     \* whether review_tracks() returned True
    written       \* the content written to the output file, or NotWritten

vars == <<pc, input, result, lines, line_num, parsed, tracks, self_tracks, warnings,
          exc, received, meta, accepted, written>>

-----------------------------------------------------------------------------
(* Bounds of the model.                                                    *)

MaxGroups == 4
MaxPieces == 4
MaxLines == 2
MaxTracks == 10

-----------------------------------------------------------------------------
(* Characters and the str methods the program uses.                        *)

\* s[i-1:i]: the i-th character (1-based), "" outside the string
Ch(s, i) == IF i >= 1 /\ i <= Len(s) THEN SubSeq(s, i, i) ELSE ""

Digits == {"0", "1", "2", "3", "4", "5", "6", "7", "8", "9"}

\* str.isspace() / the regex class \s, over the characters of the model
IsSpace(c) == c \in {" ", "\t", "\n"}

\* the regex class \d
IsDigit(c) == c \in Digits

RECURSIVE LStripFrom(_, _)
LStripFrom(s, i) ==
    IF i <= Len(s) /\ IsSpace(Ch(s, i)) THEN LStripFrom(s, i + 1) ELSE i

RECURSIVE RStripTo(_, _)
RStripTo(s, j) ==
    IF j >= 1 /\ IsSpace(Ch(s, j)) THEN RStripTo(s, j - 1) ELSE j

\* str.strip()
Strip(s) == SubSeq(s, LStripFrom(s, 1), RStripTo(s, Len(s)))

\* `sub in s`
RECURSIVE Contains(_, _)
Contains(s, c) ==
    IF Len(s) = 0 THEN FALSE
    ELSE Ch(s, 1) = c \/ Contains(SubSeq(s, 2, Len(s)), c)

\* index of the first occurrence of character c at or after i, or 0
RECURSIVE Find(_, _, _)
Find(s, c, i) ==
    IF i > Len(s) THEN 0
    ELSE IF Ch(s, i) = c THEN i
    ELSE Find(s, c, i + 1)

\* str.split(sep) for a one-character separator
RECURSIVE Split(_, _)
Split(s, sep) ==
    LET k == Find(s, sep, 1) IN
    IF k = 0 THEN <<s>>
    ELSE <<SubSeq(s, 1, k - 1)>> \o Split(SubSeq(s, k + 1, Len(s)), sep)

DigitVal(c) ==
    CASE c = "0" -> 0 [] c = "1" -> 1 [] c = "2" -> 2 [] c = "3" -> 3
      [] c = "4" -> 4 [] c = "5" -> 5 [] c = "6" -> 6 [] c = "7" -> 7
      [] c = "8" -> 8 [] c = "9" -> 9

DigitChar(d) ==
    CASE d = 0 -> "0" [] d = 1 -> "1" [] d = 2 -> "2" [] d = 3 -> "3"
      [] d = 4 -> "4" [] d = 5 -> "5" [] d = 6 -> "6" [] d = 7 -> "7"
      [] d = 8 -> "8" [] d = 9 -> "9"

-----------------------------------------------------------------------------
(* int(str): surrounding whitespace is ignored, one sign is allowed, the   *)
(* body is decimal digits, single underscores allowed between digits.      *)

IsIntBody(b) ==
    /\ Len(b) >= 1
    /\ IsDigit(Ch(b, 1))
    /\ IsDigit(Ch(b, Len(b)))
    /\ \A i \in 1..Len(b) : IsDigit(Ch(b, i)) \/ Ch(b, i) = "_"
    /\ \A i \in 1..(Len(b) - 1) : ~(Ch(b, i) = "_" /\ Ch(b, i + 1) = "_")

RECURSIVE IntBodyVal(_, _)
IntBodyVal(b, acc) ==
    IF Len(b) = 0 THEN acc
    ELSE IF Ch(b, 1) = "_" THEN IntBodyVal(SubSeq(b, 2, Len(b)), acc)
    ELSE IntBodyVal(SubSeq(b, 2, Len(b)), acc * 10 + DigitVal(Ch(b, 1)))

NoError == [raised |-> "none", msg |-> ""]

ValueError(m) == [raised |-> "ValueError", msg |-> m]

PyInt(s) ==
    LET t == Strip(s)
        signed == Len(t) >= 1 /\ Ch(t, 1) \in {"+", "-"}
        body == IF signed THEN SubSeq(t, 2, Len(t)) ELSE t
        mag == IntBodyVal(body, 0)
    IN  IF IsIntBody(body)
        THEN [err |-> NoError,
              val |-> IF signed /\ Ch(t, 1) = "-" THEN 0 - mag ELSE mag]
        ELSE [err |-> ValueError("invalid literal for int() with base 10: '"
                                 \o s \o "'"),
              val |-> 0]

-----------------------------------------------------------------------------
(* CueGenerator.parse_timestamp                                            *)

Timecode(m, s, f) == [err |-> NoError, minutes |-> m, seconds |-> s, frames |-> f]

Raise(e) == [err |-> e, minutes |-> 0, seconds |-> 0, frames |-> 0]

\* TwoGroups with a fault: the seconds carried into the minutes
TwoGroups_carry(parts) ==
    LET m == PyInt(parts[1])
        s == PyInt(parts[2])
    IN  IF m.err # NoError THEN Raise(m.err)
        ELSE IF s.err # NoError THEN Raise(s.err)
        ELSE Timecode(m.val + (s.val \div 60), s.val % 60, 0)

\* MM:SS
TwoGroups(parts) ==
    LET m == PyInt(parts[1])
        s == PyInt(parts[2])
    IN  IF m.err # NoError THEN Raise(m.err)
        ELSE IF s.err # NoError THEN Raise(s.err)
        ELSE Timecode(m.val, s.val, 0)

\* HH:MM:SS
ThreeGroups(parts) ==
    LET h == PyInt(parts[1])
        m == PyInt(parts[2])
        s == PyInt(parts[3])
    IN  IF h.err # NoError THEN Raise(h.err)
        ELSE IF m.err # NoError THEN Raise(m.err)
        ELSE IF s.err # NoError THEN Raise(s.err)
        ELSE Timecode(m.val + (h.val * 60), s.val, 0)

\* GroupCountError with a fault: extra groups are ignored instead of refused
GroupCountError_lenient(ts, parts) ==
    IF Len(parts) > 3 THEN ThreeGroups(parts)
    ELSE Raise(ValueError("Invalid timestamp format: " \o ts))

GroupCountError(ts, parts) ==
    Raise(ValueError("Invalid timestamp format: " \o ts))

parse_timestamp(timestamp) ==
    LET ts == Strip(timestamp)
        parts == Split(ts, ":")
    IN  IF Len(parts) = 2 THEN TwoGroups(parts)
        ELSE IF Len(parts) = 3 THEN ThreeGroups(parts)
        ELSE GroupCountError(ts, parts)

-----------------------------------------------------------------------------
(* The regular expressions of parse_timestamp_line.  re.match backtracks   *)
(* depth first: a greedy item tries its longest alternative first, a lazy  *)
(* one its shortest, and the first complete match wins.  A match is        *)
(* described by the choice made at every item; BestOf picks the one the    *)
(* backtracking search meets first.                                        *)

\* [\[\(]
IsOpen(c) == c \in {"[", "("}

\* [\]\)]
IsClose(c) == c \in {"]", ")"}

\* length of the run of \s characters starting at i
RECURSIVE SpaceRun(_, _)
SpaceRun(s, i) == IF IsSpace(Ch(s, i)) THEN 1 + SpaceRun(s, i + 1) ELSE 0

\* length of the run of \d characters starting at i
RECURSIVE DigitRun(_, _)
DigitRun(s, i) == IF IsDigit(Ch(s, i)) THEN 1 + DigitRun(s, i + 1) ELSE 0

\* length of the run of characters `.` matches (anything but a newline)
RECURSIVE DotRun(_, _)
DotRun(s, i) ==
    IF i <= Len(s) /\ Ch(s, i) # "\n" THEN 1 + DotRun(s, i + 1) ELSE 0

\* `$`: the end of the string, or just before a newline that ends it
AtEnd(s, i) == i = Len(s) + 1 \/ (i = Len(s) /\ Ch(s, i) = "\n")

\* \d{1,2}:\d{2}(?::\d{2})? at position a, with d leading digits and the
\* optional third group taken (e = 1) or not (e = 0)
TimestampAt(s, a, d, e) ==
    /\ \A i \in a..(a + d - 1) : IsDigit(Ch(s, i))
    /\ Ch(s, a + d) = ":"
    /\ IsDigit(Ch(s, a + d + 1))
    /\ IsDigit(Ch(s, a + d + 2))
    /\ e = 1 => /\ Ch(s, a + d + 3) = ":"
                /\ IsDigit(Ch(s, a + d + 4))
                /\ IsDigit(Ch(s, a + d + 5))

TimestampLen(d, e) == d + 3 + 3 * e

NoMatch == [matched |-> FALSE, g1 |-> "", g2 |-> ""]

Groups2(a, b) == [matched |-> TRUE, g1 |-> a, g2 |-> b]

\* the choices of one match: o, c = 1 when the optional bracket is taken,
\* d, e as in TimestampAt, k the length of \s+, t the length of (.+?)
Choices(ts, os, cs, ks) ==
    [t : ts, o : os, d : {1, 2}, e : {0, 1}, c : cs, k : ks]

\* the order in which backtracking meets the choices: shortest t, then
\* longest k, bracket taken, two digits, third group taken, bracket taken
Earlier(x, y, prefix) ==
    LET kx == <<x.t, 0 - x.o, 0 - x.d, 0 - x.e, 0 - x.c, 0 - x.k>>
        ky == <<y.t, 0 - y.o, 0 - y.d, 0 - y.e, 0 - y.c, 0 - y.k>>
        sx == <<x.t, 0 - x.k, 0 - x.o, 0 - x.d, 0 - x.e, 0 - x.c>>
        sy == <<y.t, 0 - y.k, 0 - y.o, 0 - y.d, 0 - y.e, 0 - y.c>>
        a == IF prefix THEN kx ELSE sx
        b == IF prefix THEN ky ELSE sy
    IN  \E i \in 1..6 : a[i] < b[i] /\ \A j \in 1..(i - 1) : a[j] = b[j]

BestOf(cands, prefix) ==
    CHOOSE x \in cands : \A y \in cands : y = x \/ Earlier(x, y, prefix)

\* ^[\[\(]?(TS)[\]\)]?\s+(.+)$ with brackets allowed as given
PrefixShape(s, os, cs) ==
    LET ok(x) ==
            LET a == 1 + x.o
                b == a + TimestampLen(x.d, x.e)
                w == b + x.c
                p == w + x.k
            IN  /\ x.o = 1 => IsOpen(Ch(s, 1))
                /\ TimestampAt(s, a, x.d, x.e)
                /\ x.c = 1 => IsClose(Ch(s, b))
                /\ x.k <= SpaceRun(s, w)
                /\ DotRun(s, p) >= 1
                /\ AtEnd(s, p + DotRun(s, p))
        cands == { x \in Choices({0}, os, cs, 1..Len(s)) : ok(x) }
    IN  IF cands = {} THEN NoMatch
        ELSE LET x == BestOf(cands, TRUE)
                 a == 1 + x.o
                 b == a + TimestampLen(x.d, x.e)
                 p == b + x.c + x.k
             IN  Groups2(SubSeq(s, a, b - 1), SubSeq(s, p, p + DotRun(s, p) - 1))

\* patterns[0]
Pattern1(s) == PrefixShape(s, {0, 1}, {0, 1})

\* patterns[1]
Pattern2(s) == PrefixShape(s, {0}, {0})

\* \s+[\[\(]?(TS)[\]\)]?$ after a first group of t characters: the matches
SuffixShape(s, t) ==
    LET ok(x) ==
            LET o == t + 1 + x.k
                a == o + x.o
                b == a + TimestampLen(x.d, x.e)
            IN  /\ x.o = 1 => IsOpen(Ch(s, o))
                /\ TimestampAt(s, a, x.d, x.e)
                /\ x.c = 1 => IsClose(Ch(s, b))
                /\ AtEnd(s, b + x.c)
    IN  { x \in Choices({t}, {0, 1}, {0, 1}, 1..SpaceRun(s, t + 1)) : ok(x) }

\* patterns[2]: ^(.+?)\s+[\[\(]?(TS)[\]\)]?$ ; (.+?) grows one character at
\* a time until the rest of the pattern matches
Pattern3(s) ==
    LET ts == { t \in 1..DotRun(s, 1) : SuffixShape(s, t) # {} } IN
    IF ts = {} THEN NoMatch
    ELSE LET t == CHOOSE t \in ts : \A u \in ts : t <= u
             x == BestOf(SuffixShape(s, t), FALSE)
             a == t + 1 + x.k + x.o
             b == a + TimestampLen(x.d, x.e)
         IN  Groups2(SubSeq(s, 1, t), SubSeq(s, a, b - 1))

-----------------------------------------------------------------------------
(* CueGenerator.parse_timestamp_line                                       *)

None == [matched |-> FALSE, timestamp |-> "", title |-> ""]

\* StripLine with a fault: the line is matched as read
StripLine_missing(line) == line

\* line = line.strip()
StripLine(line) == Strip(line)

\* re.sub(r'^[\d]+\.\s*', '', line)
RemoveListPrefix(line) ==
    LET n == DigitRun(line, 1) IN
    IF n >= 1 /\ Ch(line, n + 1) = "."
    THEN SubSeq(line, n + 2 + SpaceRun(line, n + 2), Len(line))
    ELSE line

\* the first pattern of the list that matches
FirstMatch(s) ==
    LET m1 == Pattern1(s)
        m2 == Pattern2(s)
    IN  IF m1.matched THEN m1
        ELSE IF m2.matched THEN m2
        ELSE Pattern3(s)

\* the group holding a colon is taken for the timestamp
AssignGroups(g) ==
    IF Contains(g.g1, ":")
    THEN [matched |-> TRUE, timestamp |-> Strip(g.g1), title |-> Strip(g.g2)]
    ELSE [matched |-> TRUE, timestamp |-> Strip(g.g2), title |-> Strip(g.g1)]

\* the text handed to the patterns
Normalized(line) == RemoveListPrefix(StripLine(line))

\* the loop over the patterns, on the text handed to them
MatchShapes(text) ==
    LET g == FirstMatch(text) IN
    IF g.matched THEN AssignGroups(g) ELSE None

parse_timestamp_line(line) ==
    IF Len(StripLine(line)) = 0 THEN None
    ELSE MatchShapes(Normalized(line))

-----------------------------------------------------------------------------
(* Formatting.                                                             *)

\* str(n) for n >= 0
RECURSIVE Str(_)
Str(n) == IF n < 10 THEN DigitChar(n) ELSE Str(n \div 10) \o DigitChar(n % 10)

\* Fmt02d with a fault: no padding
Fmt02d_plain(n) == IF n < 0 THEN "-" \o Str(0 - n) ELSE Str(n)

\* f"{n:02d}": the sign counts in the width, the zeros follow it
Fmt02d(n) ==
    IF n < 0
    THEN "-" \o (IF Len(Str(0 - n)) < 1 THEN "0" ELSE "") \o Str(0 - n)
    ELSE (IF Len(Str(n)) < 2 THEN "0" ELSE "") \o Str(n)

RECURSIVE JoinWith(_, _)
JoinWith(seq, sep) ==
    IF Len(seq) = 0 THEN ""
    ELSE IF Len(seq) = 1 THEN seq[1]
    ELSE seq[1] \o sep \o JoinWith(Tail(seq), sep)

-----------------------------------------------------------------------------
(* CueGenerator.generate_cue_content                                       *)

\* the four lines appended for the i-th track
TrackBlock(i, track, artist) ==
    << "  TRACK " \o Fmt02d(i) \o " AUDIO",
       "    TITLE \"" \o track.title \o "\"",
       "    PERFORMER \"" \o artist \o "\"",
       "    INDEX 01 " \o Fmt02d(track.minutes) \o ":" \o Fmt02d(track.seconds)
           \o ":" \o Fmt02d(track.frames) >>

RECURSIVE TrackBlocks(_, _, _)
TrackBlocks(i, ts, artist) ==
    IF i > Len(ts) THEN <<>>
    ELSE TrackBlock(i, ts[i], artist) \o TrackBlocks(i + 1, ts, artist)

\* for i, track in enumerate(self.tracks, 1)
CueTrackLines(ts, artist) == TrackBlocks(1, ts, artist)

CueHeader(m, now_year) ==
    << IF m.genre # "" THEN "REM GENRE \"" \o m.genre \o "\""
                       ELSE "REM GENRE \"Unknown\"",
       IF m.year # "" THEN "REM DATE " \o m.year
                      ELSE "REM DATE " \o now_year,
       "REM COMMENT \"Generated by YouTube to CUE Converter\"",
       "PERFORMER \"" \o m.artist \o "\"",
       "TITLE \"" \o m.album \o "\"",
       "FILE \"" \o m.audio_file \o "\" WAVE" >>

generate_cue_content(ts, m, now_year) ==
    JoinWith(CueHeader(m, now_year) \o CueTrackLines(ts, m.artist), "\n")

-----------------------------------------------------------------------------
(* The state of the program outside a run of main().                       *)

NotWritten == [done |-> FALSE, path |-> "", content |-> ""]

\* an exception as main() sees it: its class, str(e), and the class of the
\* exception it was raised from while handling (e.__context__)
NoException == [type |-> "none", msg |-> "", context |-> "none"]

NoMeta == [artist |-> "", album |-> "", audio_file |-> "", year |-> "",
           genre |-> ""]

\* CueGenerator.__init__ and the locals of main() before the first prompt
Constructed ==
    /\ lines = <<>>
    /\ line_num = 0
    /\ parsed = None
    /\ tracks = <<>>
    /\ self_tracks = <<>>
    /\ warnings = <<>>
    /\ exc = NoException
    /\ received = {}
    /\ meta = NoMeta
    /\ accepted = FALSE
    /\ written = NotWritten

mainvars == <<lines, line_num, parsed, tracks, self_tracks, warnings, exc,
              received, meta, accepted, written>>

-----------------------------------------------------------------------------
(* CueGenerator.read_timestamps_file                                       *)

Track(title, tc) ==
    [title |-> title, minutes |-> tc.minutes, seconds |-> tc.seconds,
     frames |-> tc.frames]

\* Warning with a fault: the index of the line, counted from 0
Warning_index0(n, e) == "Warning: Skipping line " \o Str(n - 1) \o " - " \o e.msg

\* print(f"Warning: Skipping line {line_num} - {e}")
Warning(n, e) == "Warning: Skipping line " \o Str(n) \o " - " \o e.msg

\* raise FileNotFoundError(f"File not found: {filepath}")
FileNotFound(filepath) ==
    [type |-> "FileNotFoundError", msg |-> "File not found: " \o filepath,
     context |-> "FileNotFoundError"]

\* raise Exception(f"Error reading file: {e}"), e of class cls
ErrorReadingFile(cls, text) ==
    [type |-> "Exception", msg |-> "Error reading file: " \o text,
     context |-> cls]

Paths == {"tracks.txt"}

\* with open(filepath, 'r', encoding='utf-8') raises FileNotFoundError
OpenNotFound ==
    /\ pc = "prompt"
    /\ \E filepath \in Paths :
          /\ exc' = FileNotFound(filepath)
          /\ received' = received \cup {exc'}
    /\ pc' = "retry"
    /\ UNCHANGED <<input, result, lines, line_num, parsed, tracks, self_tracks,
                   warnings, meta, accepted, written>>

\* open() raises another OSError (the file may not be read)
OpenDenied ==
    /\ pc = "prompt"
    /\ \E filepath \in Paths :
          /\ exc' = ErrorReadingFile("PermissionError",
                        "[Errno 13] Permission denied: '" \o filepath \o "'")
          /\ received' = received \cup {exc'}
    /\ pc' = "retry"
    /\ UNCHANGED <<input, result, lines, line_num, parsed, tracks, self_tracks,
                   warnings, meta, accepted, written>>

FileLines ==
    { "0:00 Intro\n", "[2:15] Track Two\n", "Track Three (4:30)\n",
      "just text, no timestamp\n", "Part 1: Intro (0:00)\n" }

Files == UNION { [1..n -> FileLines] : n \in 0..MaxLines }

\* lines = f.readlines(); tracks = []
ReadLines ==
    /\ pc = "prompt"
    /\ lines' \in Files
    /\ tracks' = <<>>
    /\ line_num' = 1
    /\ warnings' = <<>>
    /\ parsed' = None
    /\ pc' = "reading"
    /\ UNCHANGED <<input, result, self_tracks, exc, received, meta, accepted,
                   written>>

\* ProcessLine with a fault: a ValueError ends the loop
ProcessLine_abort ==
    /\ pc = "reading"
    /\ line_num <= Len(lines)
    /\ parsed' = parse_timestamp_line(lines[line_num])
    /\ LET tc == parse_timestamp(parsed'.timestamp) IN
       IF ~parsed'.matched
       THEN /\ line_num' = line_num + 1
            /\ UNCHANGED <<tracks, warnings>>
       ELSE IF tc.err = NoError
       THEN /\ tracks' = Append(tracks, Track(parsed'.title, tc))
            /\ line_num' = line_num + 1
            /\ UNCHANGED warnings
       ELSE /\ warnings' = Append(warnings, Warning(line_num, tc.err))
            /\ line_num' = Len(lines) + 1
            /\ UNCHANGED tracks
    /\ UNCHANGED <<pc, input, result, lines, self_tracks, exc, received, meta,
                   accepted, written>>

\* one iteration of `for line_num, line in enumerate(lines, 1)`
ProcessLine ==
    /\ pc = "reading"
    /\ line_num <= Len(lines)
    /\ parsed' = parse_timestamp_line(lines[line_num])
    /\ LET tc == parse_timestamp(parsed'.timestamp) IN
       IF ~parsed'.matched
       THEN UNCHANGED <<tracks, warnings>>
       ELSE IF tc.err = NoError
       THEN /\ tracks' = Append(tracks, Track(parsed'.title, tc))
            /\ UNCHANGED warnings
       ELSE /\ warnings' = Append(warnings, Warning(line_num, tc.err))
            /\ UNCHANGED tracks
    /\ line_num' = line_num + 1
    /\ UNCHANGED <<pc, input, result, lines, self_tracks, exc, received, meta,
                   accepted, written>>

\* FinishRead with a fault: the empty list is returned like any other
FinishRead_unchecked ==
    /\ pc = "reading"
    /\ line_num > Len(lines)
    /\ self_tracks' = tracks
    /\ pc' = "review"
    /\ UNCHANGED <<input, result, lines, line_num, parsed, tracks, warnings,
                   exc, received, meta, accepted, written>>

\* after the loop: raise on no tracks (caught by `except Exception`), else
\* self.tracks = tracks and return
FinishRead ==
    /\ pc = "reading"
    /\ line_num > Len(lines)
    /\ IF tracks = <<>>
       THEN /\ exc' = ErrorReadingFile("ValueError",
                                       "No valid timestamps found in file")
            /\ received' = received \cup {exc'}
            /\ pc' = "retry"
            /\ UNCHANGED self_tracks
       ELSE /\ self_tracks' = tracks
            /\ pc' = "review"
            /\ UNCHANGED <<exc, received>>
    /\ UNCHANGED <<input, result, lines, line_num, parsed, tracks, warnings,
                   meta, accepted, written>>

-----------------------------------------------------------------------------
(* main()                                                                  *)

\* `if not timestamps_file`: the prompt is repeated
PromptEmpty ==
    /\ pc = "prompt"
    /\ UNCHANGED vars

\* retry = input("Try again? (y/n): ")
Retry ==
    /\ pc = "retry"
    /\ \E retry \in {"y", "yes", "n", ""} :
          pc' = IF retry \in {"y", "yes"} THEN "prompt" ELSE "done"
    /\ UNCHANGED <<input, result, mainvars>>

\* CueGenerator.review_tracks
ReviewTracks ==
    /\ pc = "review"
    /\ \E response \in {"y", "yes", "", "n"} :
          /\ accepted' = (response \in {"y", "yes", ""})
          /\ pc' = IF accepted' THEN "metadata" ELSE "done"
    /\ UNCHANGED <<input, result, lines, line_num, parsed, tracks, self_tracks,
                   warnings, exc, received, meta, written>>

\* str.isdigit() over the characters of the model
IsDigitStr(s) == Len(s) >= 1 /\ \A i \in 1..Len(s) : IsDigit(Ch(s, i))

Default(s, d) == IF Strip(s) # "" THEN Strip(s) ELSE d

\* CueGenerator.get_user_input
GetUserInput ==
    /\ pc = "metadata"
    /\ \E answers \in {<<"", "mmxx">>, <<" Artist", "1999">>} :
          LET artist == answers[1]
              year_input == answers[2]
          IN
          meta' = [artist |-> Default(artist, "Unknown Artist"),
                   album |-> Default("Album ", "Unknown Album"),
                   audio_file |-> Default("", "audio.wav"),
                   year |-> IF IsDigitStr(Strip(year_input))
                            THEN Strip(year_input) ELSE meta.year,
                   genre |-> Strip("")]
    /\ pc' = "output"
    /\ UNCHANGED <<input, result, lines, line_num, parsed, tracks, self_tracks,
                   warnings, exc, received, accepted, written>>

\* str(datetime.now().year)
NowYears == {"2026"}

\* str.endswith
EndsWith(s, suffix) ==
    Len(s) >= Len(suffix) /\ SubSeq(s, Len(s) - Len(suffix) + 1, Len(s)) = suffix

\* the output filename of main(); the answers of the model hold no capital
\* letter, so lower() leaves them as they are
OutputFile(answer) ==
    LET output_file == Default(answer, "output.cue") IN
    IF EndsWith(output_file, ".cue") THEN output_file
    ELSE output_file \o ".cue"

\* the end of main(): the filename is asked for and save_cue_file called;
\* the content is generated, then written unless open() or write() raises
SaveCueFile ==
    /\ pc = "output"
    /\ \E now_year \in NowYears, answer \in {"", "mix"}, ok \in BOOLEAN :
          written' = IF ok
                     THEN [done |-> TRUE,
                           path |-> OutputFile(answer),
                           content |-> generate_cue_content(self_tracks, meta,
                                                            now_year)]
                     ELSE written
    /\ pc' = "done"
    /\ UNCHANGED <<input, result, lines, line_num, parsed, tracks, self_tracks,
                   warnings, exc, received, meta, accepted>>

Init ==
    /\ pc = "prompt"
    /\ input = ""
    /\ result = Raise(NoError)
    /\ Constructed

Next ==
    \/ PromptEmpty
    \/ OpenNotFound
    \/ OpenDenied
    \/ ReadLines
    \/ ProcessLine
    \/ FinishRead
    \/ Retry
    \/ ReviewTracks
    \/ GetUserInput
    \/ SaveCueFile

Spec == Init /\ [][Next]_vars

-----------------------------------------------------------------------------
(* parse_timestamp applied to tokens: groups joined by ':'.                *)

Groups == {"", "5", "05", "75", "12", "a", " 7", "-1"}

Tokens ==
    UNION { { JoinWith(gs, ":") : gs \in [1..n -> Groups] } : n \in 1..MaxGroups }
    \cup {"abc", " 1:05 ", "1:2:3:4", "1_0:0_5"}

InitTimestamp ==
    /\ pc = "timestamp_call"
    /\ input \in Tokens
    /\ result = Raise(NoError)
    /\ Constructed

CallParseTimestamp ==
    /\ pc = "timestamp_call"
    /\ result' = parse_timestamp(input)
    /\ pc' = "timestamp_return"
    /\ UNCHANGED <<input, mainvars>>

SpecTimestamp == InitTimestamp /\ [][CallParseTimestamp]_vars

-----------------------------------------------------------------------------
(* The loop body of read_timestamps_file applied to a one-line file, the   *)
(* line put together from a few pieces.                                    *)

Pieces == {"0", ":", " ", "a", "0.", "0:05", "(0:05)", "[1:02:03]"}

LineUniverse ==
    UNION { { JoinWith(ps, "") : ps \in [1..n -> Pieces] } : n \in 0..MaxPieces }

InitLine ==
    /\ pc = "reading"
    /\ input = ""
    /\ result = Raise(NoError)
    /\ \E l \in LineUniverse : lines = <<l>>
    /\ line_num = 1
    /\ parsed = None
    /\ tracks = <<>>
    /\ self_tracks = <<>>
    /\ warnings = <<>>
    /\ exc = NoException
    /\ received = {}
    /\ meta = NoMeta
    /\ accepted = FALSE
    /\ written = NotWritten

SpecLine == InitLine /\ [][ProcessLine]_vars

-----------------------------------------------------------------------------
(* save_cue_file applied to a generator holding a list of tracks.          *)

TrackKinds ==
    { [title |-> "Intro", minutes |-> 0, seconds |-> 0, frames |-> 0],
      [title |-> "Track Two", minutes |-> 2, seconds |-> 15, frames |-> 0],
      [title |-> "b", minutes |-> 125, seconds |-> 75, frames |-> 0],
      [title |-> "0:00", minutes |-> 0 - 1, seconds |-> 2, frames |-> 0] }

\* lists of up to MaxTracks tracks, all of one kind but for one position
TrackLists ==
    { [i \in 1..n |-> IF i = j THEN a ELSE b] :
        n \in 1..MaxTracks, j \in 1..MaxTracks, a \in TrackKinds, b \in TrackKinds }

Metas ==
    { [artist |-> "Artist", album |-> "Album", audio_file |-> "audio.wav",
       year |-> y, genre |-> ""] : y \in {"", "1999"} }

InitCue ==
    /\ pc = "output"
    /\ input = ""
    /\ result = Raise(NoError)
    /\ lines = <<>>
    /\ line_num = 1
    /\ parsed = None
    /\ tracks = <<>>
    /\ self_tracks \in TrackLists
    /\ warnings = <<>>
    /\ exc = NoException
    /\ received = {}
    /\ meta \in Metas
    /\ accepted = TRUE
    /\ written = NotWritten

SpecCue == InitCue /\ [][SaveCueFile]_vars

-----------------------------------------------------------------------------
(* Text predicates used to state the properties.                           *)

StartsWith(s, p) == Len(s) >= Len(p) /\ SubSeq(s, 1, Len(p)) = p

HasSub(s, sub) ==
    \E i \in 1..(Len(s) - Len(sub) + 1) : SubSeq(s, i, i + Len(sub) - 1) = sub

\* a TimestampToken: D{1,2}:DD or D{1,2}:DD:DD
IsTimestampToken(s) ==
    \E d \in {1, 2}, e \in {0, 1} :
        TimestampAt(s, 1, d, e) /\ Len(s) = TimestampLen(d, e)

\* no surrounding whitespace, and not empty
Trimmed(s) == s # "" /\ ~IsSpace(Ch(s, 1)) /\ ~IsSpace(Ch(s, Len(s)))

\* the loop body has run on lines[line_num - 1]
Processed == pc = "reading" /\ line_num > 1

LastLine == lines[line_num - 1]

\* the tracks of the lines that are extracted and converted, in order
RECURSIVE ExtractedFrom(_)
ExtractedFrom(ls) ==
    IF ls = <<>> THEN <<>>
    ELSE LET p == parse_timestamp_line(Head(ls))
             tc == parse_timestamp(p.timestamp)
         IN  (IF p.matched /\ tc.err = NoError
              THEN <<Track(p.title, tc)>> ELSE <<>>)
             \o ExtractedFrom(Tail(ls))

ConversionFails(line) ==
    LET p == parse_timestamp_line(line) IN
    p.matched /\ parse_timestamp(p.timestamp).err # NoError

-----------------------------------------------------------------------------
(* C1 *)

\* a line 'TITLE (TS)': a title that is no timestamp prefix and no list
\* marker, one space, a timestamp token in parentheses
IsSuffixForm(line, k) ==
    LET title == SubSeq(line, 1, k)
        rest == SubSeq(line, k + 1, Len(line))
    IN  /\ Trimmed(title)
        /\ ~IsDigit(Ch(title, 1))
        /\ ~IsOpen(Ch(title, 1))
        /\ Len(rest) >= 3
        /\ Ch(rest, 1) = " " /\ Ch(rest, 2) = "(" /\ Ch(rest, Len(rest)) = ")"
        /\ IsTimestampToken(SubSeq(rest, 3, Len(rest) - 1))

\* C1: every match of parse_timestamp_line has a TimestampToken as its
\* timestamp, and for a line 'TITLE (TS)' the timestamp is TS and the title
\* is TITLE, whatever the title text (a colon included).
C1_TimestampIsToken ==
    (Processed /\ parsed.matched) =>
        /\ IsTimestampToken(parsed.timestamp)
        /\ \A k \in 1..Len(LastLine) :
              IsSuffixForm(LastLine, k) =>
                  /\ parsed.title = SubSeq(LastLine, 1, k)
                  /\ parsed.timestamp = SubSeq(LastLine, k + 3, Len(LastLine) - 1)

-----------------------------------------------------------------------------
(* C2 *)

\* the printed line w reports line n of the input with its text
Diagnoses(w, n, line) == HasSub(w, Str(n)) /\ HasSub(w, Strip(line))

\* C2 as claimed: a loop iteration that adds no Track prints a diagnostic
\* carrying the 1-based number and the text of the line it skipped.
C2_SkippedLineIsDiagnosed ==
    [][(pc = "reading" /\ line_num' = line_num + 1 /\ tracks' = tracks) =>
          /\ Len(warnings') = Len(warnings) + 1
          /\ Diagnoses(warnings'[Len(warnings')], line_num, lines[line_num])]_vars

\* C2 as amended: a loop iteration on a line that is extracted but not
\* converted prints one warning carrying the 1-based number of the line and
\* the message of the conversion error; an iteration on a line that matches
\* no shape prints nothing.
C2_FailedConversionIsWarned ==
    [][(pc = "reading" /\ line_num' = line_num + 1) =>
          LET line == lines[line_num] IN
          /\ ConversionFails(line) =>
                /\ tracks' = tracks
                /\ Len(warnings') = Len(warnings) + 1
                /\ SubSeq(warnings', 1, Len(warnings)) = warnings
                /\ StartsWith(warnings'[Len(warnings')],
                              "Warning: Skipping line " \o Str(line_num) \o " - ")
                /\ HasSub(warnings'[Len(warnings')],
                          parse_timestamp(parse_timestamp_line(line).timestamp).err.msg)
          /\ ~parse_timestamp_line(line).matched =>
                tracks' = tracks /\ warnings' = warnings]_vars

\* an unmatched first line passed in silence, a second line warned about
C2_Witness ==
    /\ pc = "reading"
    /\ line_num = 3
    /\ ~parse_timestamp_line(lines[1]).matched
    /\ ConversionFails(lines[2])
    /\ tracks = <<>>
    /\ warnings = << "Warning: Skipping line 2 - invalid literal for int() "
                     \o "with base 10: 'Part 1'" >>

-----------------------------------------------------------------------------
(* C3 *)

NoTracksMessage == "No valid timestamps found in file"

\* C3: the no-tracks error is raised only once every line has been
\* processed and none gave a track; a call returns only with at least one
\* track; and the output is written only after such a return and the
\* user's acceptance of the list.
C3_NoTracksNoOutput ==
    /\ (pc = "retry" /\ HasSub(exc.msg, NoTracksMessage)) =>
          /\ line_num = Len(lines) + 1
          /\ tracks = <<>>
          /\ ~written.done
    /\ pc \in {"review", "metadata", "output"} =>
          /\ self_tracks # <<>>
          /\ self_tracks = tracks
          /\ line_num = Len(lines) + 1
          /\ ~written.done
    /\ written.done => /\ accepted
                       /\ self_tracks # <<>>
                       /\ self_tracks = tracks
                       /\ ExtractedFrom(lines) # <<>>
                       /\ pc = "done"

\* a run in which a first input gave no track, the user retried, and the
\* second input was converted and written
C3_Witness ==
    /\ written.done
    /\ \E e \in received : HasSub(e.msg, NoTracksMessage)

-----------------------------------------------------------------------------
(* C4 *)

IsDecimal(g) == Len(g) >= 1 /\ \A i \in 1..Len(g) : IsDigit(Ch(g, i))

\* the number a decimal text denotes
RECURSIVE NumberOf(_)
NumberOf(g) ==
    IF Len(g) = 0 THEN 0
    ELSE 10 * NumberOf(SubSeq(g, 1, Len(g) - 1)) + DigitVal(Ch(g, Len(g)))

\* C4: 'M:SS' gives (M, SS, 0) and 'H:MM:SS' gives (H*60+MM, SS, 0), the
\* seconds kept as written, and frames are 0 in every Timecode.
C4_TimecodeOfGroups ==
    pc = "timestamp_return" =>
        LET parts == Split(Strip(input), ":") IN
        /\ (Len(parts) = 2 /\ \A i \in 1..2 : IsDecimal(parts[i])) =>
              result = Timecode(NumberOf(parts[1]), NumberOf(parts[2]), 0)
        /\ (Len(parts) = 3 /\ \A i \in 1..3 : IsDecimal(parts[i])) =>
              result = Timecode(NumberOf(parts[1]) * 60 + NumberOf(parts[2]),
                                NumberOf(parts[3]), 0)
        /\ result.frames = 0

\* 5:12:75 is 312 minutes and 75 seconds
C4_Witness ==
    /\ pc = "timestamp_return"
    /\ input = "5:12:75"
    /\ result = Timecode(312, 75, 0)

-----------------------------------------------------------------------------
(* C5 *)

\* text int() accepts: optional sign, digits, underscores only between digits
LooksInteger(g) ==
    LET t == Strip(g) IN
    \E k \in {0, 1} :
        /\ k = 1 => Ch(t, 1) \in {"+", "-"}
        /\ Len(t) > k
        /\ \A i \in (k + 1)..Len(t) :
              \/ IsDigit(Ch(t, i))
              \/ /\ Ch(t, i) = "_"
                 /\ i > k + 1 /\ IsDigit(Ch(t, i - 1))
                 /\ IsDigit(Ch(t, i + 1))

\* C5: parse_timestamp raises ValueError exactly when the trimmed token is
\* not 2 or 3 colon-separated integer groups; '', 'abc' and '1:2:3:4' fail.
C5_InvalidFormat ==
    pc = "timestamp_return" =>
        LET parts == Split(Strip(input), ":")
            wellFormed == /\ Len(parts) \in {2, 3}
                          /\ \A i \in 1..Len(parts) : LooksInteger(parts[i])
        IN  /\ result.err.raised = (IF wellFormed THEN "none" ELSE "ValueError")
            /\ input \in {"", "abc", "1:2:3:4"} => result.err.raised = "ValueError"

C5_Witness ==
    /\ pc = "timestamp_return"
    /\ input = "1:2:3:4"
    /\ result.err.raised = "ValueError"

-----------------------------------------------------------------------------
(* C6 *)

\* C6: the list a successful call stores is the list of tracks of the lines
\* that are extracted and converted, in input order, and the loop has gone
\* through every line, those after a failed conversion included.
C6_TracksAreTheExtractedLines ==
    /\ pc = "reading" =>
          tracks = ExtractedFrom(SubSeq(lines, 1, line_num - 1))
    /\ pc = "review" =>
          /\ line_num = Len(lines) + 1
          /\ self_tracks = ExtractedFrom(lines)
          /\ Len(self_tracks) <= Len(lines)

\* a successful call on a file whose first line fails conversion and whose
\* second line gives the track
C6_Witness ==
    /\ pc = "review"
    /\ Len(lines) = 2
    /\ ConversionFails(lines[1])
    /\ Len(warnings) = 1
    /\ Len(self_tracks) = 1
    /\ self_tracks[1].title = "Track Three"

-----------------------------------------------------------------------------
(* C7 *)

\* n in decimal, at least two characters wide, filled with zeros: the
\* width of the 02d format counts the sign of a negative number
TwoDigits(n) ==
    IF n < 0 THEN "-" \o Str(0 - n)
    ELSE IF n < 100 THEN DigitChar(n \div 10) \o DigitChar(n % 10)
    ELSE Str(n)

\* the indices of the 'TRACK' lines among ls
TrackLineAt(ls) == { i \in 1..Len(ls) : StartsWith(ls[i], "  TRACK ") }

\* C7: the content holds one 'TRACK NN AUDIO' line per track, the k-th of
\* them numbered k in two digits, and the lines from it to the next one
\* hold the k-th track's title and 'INDEX 01 mm:ss:00'.
C7_OneBlockPerTrack ==
    written.done =>
        LET ls == Split(written.content, "\n")
            at == TrackLineAt(ls)
            nth(k) == CHOOSE i \in at : Cardinality({j \in at : j < i}) = k - 1
            last(k) == IF k = Len(self_tracks) THEN Len(ls) ELSE nth(k + 1) - 1
        IN  /\ Cardinality(at) = Len(self_tracks)
            /\ \A k \in 1..Len(self_tracks) :
                  /\ ls[nth(k)] = "  TRACK " \o TwoDigits(k) \o " AUDIO"
                  /\ \E i \in nth(k)..last(k) :
                        ls[i] = "    TITLE \"" \o self_tracks[k].title \o "\""
                  /\ \E i \in nth(k)..last(k) :
                        ls[i] = "    INDEX 01 "
                                \o TwoDigits(self_tracks[k].minutes) \o ":"
                                \o TwoDigits(self_tracks[k].seconds) \o ":00"

\* ten tracks written, the third at 125 minutes 75 seconds
C7_Witness ==
    /\ written.done
    /\ Len(self_tracks) = 10
    /\ self_tracks[3].minutes = 125
    /\ self_tracks[1].minutes = 0
    /\ HasSub(written.content, "  TRACK 10 AUDIO")
    /\ HasSub(written.content, "    INDEX 01 125:75:00")

-----------------------------------------------------------------------------
(* C8 *)

IsIOFailure(e) == e.context \in {"FileNotFoundError", "PermissionError"}

IsNoTracks(e) == e.context = "ValueError"

\* C8: main() never catches the same kind of exception for a missing or
\* unreadable file as for an input without tracks.
C8_ErrorKindsKeptApart ==
    \A e1 \in received, e2 \in received :
        (IsIOFailure(e1) /\ IsNoTracks(e2)) => e1.type # e2.type

-----------------------------------------------------------------------------
(* C9 *)

\* the text begins with "<digits>." followed by whitespace
HasListMarker(s) ==
    LET n == DigitRun(s, 1) IN
    n >= 1 /\ Ch(s, n + 1) = "." /\ IsSpace(Ch(s, n + 2))

\* C9: a line without a leading "<digits>. " marker is matched as its
\* trimmed text, unchanged, and putting "1. " before it does not change
\* the result.
C9_OnlySpacedMarkerRemoved ==
    (Processed /\ ~HasListMarker(Strip(LastLine))) =>
        /\ parsed = MatchShapes(Strip(LastLine))
        /\ parsed = parse_timestamp_line("1. " \o LastLine)

-----------------------------------------------------------------------------
(* C10 *)

\* C10: the title of every match, and of every track stored, is not empty
\* and has no whitespace at either end.
C10_TitleTrimmed ==
    /\ (Processed /\ parsed.matched) => Trimmed(parsed.title)
    /\ \A i \in 1..Len(tracks) : Trimmed(tracks[i].title)
    /\ \A i \in 1..Len(self_tracks) : Trimmed(self_tracks[i].title)

\* a suffix-form line with spaces around it, its title stored in a track
C10_Witness ==
    /\ Processed
    /\ LastLine = " a (0:05)"
    /\ parsed.title = "a"
    /\ Len(tracks) = 1
    /\ tracks[1].title = "a"

=============================================================================
